---- MODULE Spec2Model ----
(***************************************************************************)
(* Model of the key-value client's request pipeline                        *)
(* (src/client/kv_client.py): the retry loop of KVClient._request, its     *)
(* exception handlers, the backoff delay, and the five public operations   *)
(* that delegate to it.  The server is a black box that answers every      *)
(* network attempt with an HTTP response or a transport failure.           *)
(*                                                                         *)
(* Durations are integers (ticks); a response body is the JSON document    *)
(* it encodes, which response.json() hands back.                           *)
(***************************************************************************)
EXTENDS Integers, Sequences, FiniteSets

VARIABLES
    base_url,      \* self.base_url       (kv_client.py:24)
    timeout,       \* self.timeout        (kv_client.py:25)
    max_retries,   \* self.max_retries    (kv_client.py:26)
    backoff_base,  \* self.backoff_base   (kv_client.py:27)
    jitter,        \* self.jitter         (kv_client.py:28)
    pc,            \* per caller: where its call of _request stands
    req,           \* per caller: method, url, params, json of the call
    attempt,       \* per caller: the loop variable of line 43
    sent,          \* per caller: the requests put on the wire by this call
    hist,          \* per caller: the outcome of every network attempt of this call
    sleeps,        \* per caller: the time.sleep calls of this call
    delay,         \* per caller: the delay of the latest time.sleep
    result,        \* per caller: what the call returned or raised
    op,            \* per caller: the public operation called and its arguments
    store,         \* the service's Item table, in id order (main.py:22)
    handlers,      \* the service's request handlers in progress or finished
    key_unique,    \* whether the Item table refuses a second row with a key
    probe          \* a response handed to the try block on its own, and its outcome

config == <<base_url, timeout, max_retries, backoff_base, jitter>>
service == <<store, handlers, key_unique>>
vars == <<base_url, timeout, max_retries, backoff_base, jitter,
          pc, req, attempt, sent, hist, sleeps, delay, result, op,
          store, handlers, key_unique, probe>>

----------------------------------------------------------------------------
(* Bounds of the model *)

MaxRetries == 3
MaxBase == 2
MaxJitter == 2

(* Inputs *)

Callers == {"main"}
Keys == {"k"}
Values == {"v"}
Pages == {0, 1}
PageSizes == {10, 101}
Timeouts == {5}
BaseUrls == {<<"http://host">>, <<"http://host", "/">>}
StatusCodes == {200, 400, 404, 429, 500}
Documents == {"doc1", "doc2"}

NoDoc == "none"
None == [none |-> TRUE]

----------------------------------------------------------------------------
(* Exceptions: classes of kv_client.py and of requests.exceptions *)

NoExc == [type |-> "none", msg |-> "", status |-> 0, text |-> NoDoc]

\* class RateLimitError(KVClientError); class KVClientError(Exception)
IsInstance(type, cls) ==
    \/ type = cls
    \/ type = "RateLimitError" /\ cls = "KVClientError"

\* str.rstrip("/") on a url held as a sequence of tokens
RECURSIVE rstrip(_)
rstrip(s) ==
    IF Len(s) > 0 /\ s[Len(s)] = "/" THEN rstrip(SubSeq(s, 1, Len(s) - 1)) ELSE s

\* 2 ** attempt
RECURSIVE Pow2(_)
Pow2(n) == IF n <= 0 THEN 1 ELSE 2 * Pow2(n - 1)

----------------------------------------------------------------------------
(* What one network attempt can come back with *)

\* The bodies the service of src/app/main.py sends with a status: a JSON
\* document on success, the detail of its HTTPException or of its
\* rate-limit handler otherwise.
Bodies(s) ==
    IF s < 400 THEN Documents
    ELSE IF s = 400 THEN {"Key exists"}
    ELSE IF s = 404 THEN {"Key not found"}
    ELSE IF s = 429 THEN {"Rate limit exceeded. Try again later."}
    ELSE {"Internal server error"}

HttpResponses ==
    UNION { { [kind |-> "response", status_code |-> s, body |-> d] : d \in Bodies(s) } :
            s \in StatusCodes }

TransportFailures ==
    { [kind |-> k, status_code |-> 0, body |-> NoDoc] :
        k \in {"Timeout", "ConnectionError"} }

Outcomes == HttpResponses \cup TransportFailures

----------------------------------------------------------------------------
(* The body of the try block, lines 45-70: what it returns or raises *)

Returned(doc) == [kind |-> "return", value |-> doc, exc |-> NoExc]
Raised(e) == [kind |-> "raise", value |-> NoDoc, exc |-> e]
NoResult == [kind |-> "none", value |-> NoDoc, exc |-> NoExc]

RateLimitExc ==
    [type |-> "RateLimitError", msg |-> "Rate limit exceeded",
     status |-> 0, text |-> NoDoc]
ClientExc(r) ==
    [type |-> "KVClientError", msg |-> "status: text",
     status |-> r.status_code, text |-> r.body]
ServerExc(r) ==
    [type |-> "KVClientError", msg |-> "Server error",
     status |-> r.status_code, text |-> NoDoc]
TransportExc(r) ==
    [type |-> r.kind, msg |-> "", status |-> 0, text |-> NoDoc]
MaxRetriesExc ==
    [type |-> "KVClientError", msg |-> "Max retries exceeded",
     status |-> 0, text |-> NoDoc]

TryBody(r) ==
    IF r.kind # "response" THEN Raised(TransportExc(r))
    ELSE IF r.status_code = 429 THEN Raised(RateLimitExc)
    ELSE IF r.status_code < 400 THEN Returned(r.body)
    ELSE IF 400 <= r.status_code /\ r.status_code < 500 THEN Raised(ClientExc(r))
    ELSE Raised(ServerExc(r))

\* The except clauses in source order, lines 72 and 77-79: the first clause
\* whose class the exception is an instance of handles it.
ExceptClauseSwapped(e) ==
    IF \/ IsInstance(e.type, "Timeout")
       \/ IsInstance(e.type, "ConnectionError")
       \/ IsInstance(e.type, "KVClientError") THEN "Retry"
    ELSE IF IsInstance(e.type, "RateLimitError") THEN "RateLimit"
    ELSE "Unhandled"

ExceptClause(e) ==
    IF IsInstance(e.type, "RateLimitError") THEN "RateLimit"
    ELSE IF \/ IsInstance(e.type, "Timeout")
            \/ IsInstance(e.type, "ConnectionError")
            \/ IsInstance(e.type, "KVClientError") THEN "Retry"
    ELSE "Unhandled"

\* attempt is a local variable of _request: binding it in one call leaves the
\* attempt of every other call alone
SetShared(f, c, v) == [x \in DOMAIN f |-> v]

SetLocal(f, c, v) == [f EXCEPT ![c] = v]

IsLastAttemptNever(a, n) == FALSE
IsLastAttemptEarly(a, n) == a >= n - 2
IsLastAttemptLate(a, n) == a = n

\* line 80
IsLastAttempt(a, n) == a = n - 1

InRangeInclusive(i, n) == 0 <= i /\ i <= n
InRangeUnbounded(i, n) == 0 <= i

\* for attempt in range(n): is there a value i to bind
InRange(i, n) == 0 <= i /\ i < n

----------------------------------------------------------------------------
(* _backoff_delay, lines 87-90 *)

ExponentialNext(base, a) == base * Pow2(a + 1)

Exponential(base, a) == base * Pow2(a)

UniformClosed(j) == 0 .. j

\* random.uniform(0, j) = 0 + (j - 0) * random(), random() in [0, 1)
Uniform(j) == IF j > 0 THEN 0 .. (j - 1) ELSE {0}

BackoffDelays(base, j, a) == { Exponential(base, a) + u : u \in Uniform(j) }

----------------------------------------------------------------------------
Init ==
    /\ base_url \in { rstrip(u) : u \in BaseUrls }
    /\ timeout \in Timeouts
    /\ max_retries \in (-1) .. MaxRetries
    /\ backoff_base \in 0 .. MaxBase
    /\ jitter \in 0 .. MaxJitter
    /\ pc = [c \in Callers |-> "idle"]
    /\ req = [c \in Callers |-> None]
    /\ attempt = [c \in Callers |-> 0]
    /\ sent = [c \in Callers |-> << >>]
    /\ hist = [c \in Callers |-> << >>]
    /\ sleeps = [c \in Callers |-> << >>]
    /\ delay = [c \in Callers |-> 0]
    /\ result = [c \in Callers |-> NoResult]
    /\ op = [c \in Callers |-> None]
    /\ store = << >>
    /\ handlers = << >>
    /\ key_unique = FALSE
    /\ probe = None

\* lines 41-43 (and 85 when range(max_retries) is empty): a caller that is
\* not inside a call enters _request
Request(c, method, path, params, json) ==
    /\ pc[c] \in {"idle", "done"}
    /\ req' = [req EXCEPT ![c] =
                 [method |-> method, url |-> base_url \o path,
                  params |-> params, json |-> json, timeout |-> timeout]]
    /\ sent' = [sent EXCEPT ![c] = << >>]
    /\ hist' = [hist EXCEPT ![c] = << >>]
    /\ sleeps' = [sleeps EXCEPT ![c] = << >>]
    /\ delay' = [delay EXCEPT ![c] = 0]
    /\ attempt' = SetLocal(attempt, c, 0)
    /\ IF InRange(0, max_retries)
       THEN /\ pc' = [pc EXCEPT ![c] = "request"]
            /\ result' = [result EXCEPT ![c] = NoResult]
       ELSE /\ pc' = [pc EXCEPT ![c] = "done"]
            /\ result' = [result EXCEPT ![c] = Raised(MaxRetriesExc)]
    /\ UNCHANGED <<config, service, probe>>

Called(c, name, args) == op' = [op EXCEPT ![c] = [name |-> name, args |-> args]]

create(c) ==
    \E key \in Keys, value \in Values :
        /\ Called(c, "create", <<key, value>>)
        /\ Request(c, "POST", <<"/items/">>, None, [key |-> key, value |-> value])

get(c) ==
    \E key \in Keys :
        /\ Called(c, "get", <<key>>)
        /\ Request(c, "GET", <<"/items/", key>>, None, None)

update(c) ==
    \E key \in Keys, value \in Values :
        /\ Called(c, "update", <<key, value>>)
        /\ Request(c, "PUT", <<"/items/", key>>, [value |-> value], None)

delete(c) ==
    \E key \in Keys :
        /\ Called(c, "delete", <<key>>)
        /\ Request(c, "DELETE", <<"/items/", key>>, None, None)

ListParamsClamped(page, page_size) ==
    [page |-> IF page < 1 THEN 1 ELSE page,
     page_size |-> IF page_size < 1 THEN 1 ELSE IF page_size > 100 THEN 100 ELSE page_size]

\* the params dict of line 141
ListParams(page, page_size) == [page |-> page, page_size |-> page_size]

list(c) ==
    \E page \in Pages, page_size \in PageSizes :
        /\ Called(c, "list", <<page, page_size>>)
        /\ Request(c, "GET", <<"/items/">>, ListParams(page, page_size), None)

EnterSleepScaling(c) ==
    /\ \E d \in BackoffDelays(backoff_base, jitter, attempt[c]) :
           delay' = [delay EXCEPT ![c] = d]
    /\ sleeps' = [sleeps EXCEPT ![c] =
                    Append(@, [attempt |-> attempt[c],
                               exponential |-> Exponential(backoff_base, attempt[c])])]
    /\ pc' = [pc EXCEPT ![c] = "sleep"]
    /\ backoff_base' = backoff_base * 2
    /\ UNCHANGED <<result, base_url, timeout, max_retries, jitter>>

\* lines 74-75 and 82-83: compute the delay and enter time.sleep
EnterSleep(c) ==
    /\ \E d \in BackoffDelays(backoff_base, jitter, attempt[c]) :
           delay' = [delay EXCEPT ![c] = d]
    /\ sleeps' = [sleeps EXCEPT ![c] =
                    Append(@, [attempt |-> attempt[c],
                               exponential |-> Exponential(backoff_base, attempt[c])])]
    /\ pc' = [pc EXCEPT ![c] = "sleep"]
    /\ UNCHANGED <<result, config>>

FinishGeneric(c, res) ==
    /\ pc' = [pc EXCEPT ![c] = "done"]
    /\ result' = [result EXCEPT ![c] =
                    IF res.kind = "raise" THEN Raised(MaxRetriesExc) ELSE res]
    /\ UNCHANGED <<sleeps, delay, config>>

\* lines 59 and 81: the call is over, with a return value or the exception
\* in flight
Finish(c, res) ==
    /\ pc' = [pc EXCEPT ![c] = "done"]
    /\ result' = [result EXCEPT ![c] = res]
    /\ UNCHANGED <<sleeps, delay, config>>

\* lines 52-83: what the loop does with the outcome r of its network attempt,
\* up to its return, raise or sleep
Handle(c, r) ==
    LET out == TryBody(r) IN
    /\ hist' = [hist EXCEPT ![c] = Append(@, r)]
    /\ IF out.kind = "return" THEN Finish(c, out)
       ELSE IF ExceptClause(out.exc) = "RateLimit" THEN EnterSleep(c)
       ELSE IF ExceptClause(out.exc) = "Retry"
            THEN IF IsLastAttempt(attempt[c], max_retries)
                 THEN Finish(c, out)
                 ELSE EnterSleep(c)
       ELSE Finish(c, out)
    /\ UNCHANGED <<req, attempt, op>>

\* lines 44-83: one iteration of the loop, the service being a black box
Attempt(c) ==
    /\ pc[c] = "request"
    /\ Len(hist[c]) < MaxRetries   \* the log of attempts is kept finite
    /\ sent' = [sent EXCEPT ![c] = Append(@, req[c])]
    /\ \E r \in Outcomes : Handle(c, r)
    /\ UNCHANGED <<service, probe>>

\* time.sleep returns; line 43 binds the next value of range(max_retries),
\* or the loop is over and line 85 raises
Wake(c) ==
    /\ pc[c] = "sleep"
    /\ IF InRange(attempt[c] + 1, max_retries)
       THEN /\ attempt' = SetLocal(attempt, c, attempt[c] + 1)
            /\ pc' = [pc EXCEPT ![c] = "request"]
            /\ UNCHANGED result
       ELSE /\ pc' = [pc EXCEPT ![c] = "done"]
            /\ result' = [result EXCEPT ![c] = Raised(MaxRetriesExc)]
            /\ UNCHANGED attempt
    /\ UNCHANGED <<config, req, sent, hist, sleeps, delay, op, service, probe>>

Next ==
    \/ \E c \in DOMAIN pc : create(c)
    \/ \E c \in DOMAIN pc : get(c)
    \/ \E c \in DOMAIN pc : update(c)
    \/ \E c \in DOMAIN pc : delete(c)
    \/ \E c \in DOMAIN pc : list(c)
    \/ \E c \in DOMAIN pc : Attempt(c)
    \/ \E c \in DOMAIN pc : Wake(c)

Spec == Init /\ [][Next]_vars

----------------------------------------------------------------------------
(* Two threads calling through one client: the fields of the client are    *)
(* shared, the locals of _request are per call.                            *)

Threads == {"t1", "t2"}
ThreadPolicies ==
    { [max_retries |-> n, backoff_base |-> 1, jitter |-> j] : n \in {1, 2}, j \in {1, 2} }

ConcInit ==
    /\ base_url \in { rstrip(u) : u \in BaseUrls }
    /\ timeout \in Timeouts
    /\ \E p \in ThreadPolicies :
         /\ max_retries = p.max_retries
         /\ backoff_base = p.backoff_base
         /\ jitter = p.jitter
    /\ pc = [c \in Threads |-> "idle"]
    /\ req = [c \in Threads |-> None]
    /\ attempt = [c \in Threads |-> 0]
    /\ sent = [c \in Threads |-> << >>]
    /\ hist = [c \in Threads |-> << >>]
    /\ sleeps = [c \in Threads |-> << >>]
    /\ delay = [c \in Threads |-> 0]
    /\ result = [c \in Threads |-> NoResult]
    /\ op = [c \in Threads |-> None]
    /\ store = << >>
    /\ handlers = << >>
    /\ key_unique = FALSE
    /\ probe = None

ConcNext ==
    \/ \E c \in DOMAIN pc : create(c)
    \/ \E c \in DOMAIN pc : get(c)
    \/ \E c \in DOMAIN pc : Attempt(c)
    \/ \E c \in DOMAIN pc : Wake(c)

ConcSpec == ConcInit /\ [][ConcNext]_vars

----------------------------------------------------------------------------
(* The try block of lines 52-70 on its own, over every status code a       *)
(* response can carry.                                                     *)

ProbeStatuses == 100 .. 599
ProbeResponses ==
    { [kind |-> "response", status_code |-> s, body |-> d] :
        s \in ProbeStatuses, d \in {"doc1"} } \cup TransportFailures

ClassifyInit ==
    /\ base_url \in { rstrip(u) : u \in BaseUrls }
    /\ timeout \in Timeouts
    /\ max_retries = 1
    /\ backoff_base = 1
    /\ jitter = 1
    /\ pc = [c \in Callers |-> "idle"]
    /\ req = [c \in Callers |-> None]
    /\ attempt = [c \in Callers |-> 0]
    /\ sent = [c \in Callers |-> << >>]
    /\ hist = [c \in Callers |-> << >>]
    /\ sleeps = [c \in Callers |-> << >>]
    /\ delay = [c \in Callers |-> 0]
    /\ result = [c \in Callers |-> NoResult]
    /\ op = [c \in Callers |-> None]
    /\ store = << >>
    /\ handlers = << >>
    /\ key_unique = FALSE
    /\ probe \in { [response |-> r, outcome |-> NoResult] : r \in ProbeResponses }

Classify ==
    /\ probe.outcome = NoResult
    /\ probe' = [probe EXCEPT !.outcome = TryBody(probe.response)]
    /\ UNCHANGED <<config, service, pc, req, attempt, sent, hist, sleeps, delay,
                   result, op>>

ClassifyNext == Classify

ClassifySpec == ClassifyInit /\ [][ClassifyNext]_vars

----------------------------------------------------------------------------
(* The service of src/app/main.py: its Item table and the handlers of      *)
(* POST /items/ and GET /items/.  A handler is one request in the service: *)
(* the request as sent, where the handler stands, and its response.        *)

ServiceKeys == {"k", "j"}
ItemDocument == "{key, value}"
PageDocument == "{page, page_size, total, items}"

NewHandler(request, at) ==
    [request |-> request, pc |-> at, status |-> 0, body |-> NoDoc, lost_at |-> ""]

Answer(h, status, body) ==
    [handlers EXCEPT ![h] = [@ EXCEPT !.pc = "done", !.status = status, !.body = body]]

Route(request) ==
    IF request.method = "POST" THEN "create_item" ELSE "list_items"

\* Query(1, ge=1) and Query(10, ge=1, le=100), lines 116-117
ValidQuery(params) ==
    /\ params.page >= 1
    /\ params.page_size >= 1
    /\ params.page_size <= 100

\* Item.objects.filter(key=key).exists()
KeyExists(items, key) == \E i \in 1 .. Len(items) : items[i].key = key

CountKey(items, key) == Cardinality({ i \in 1 .. Len(items) : items[i].key = key })

\* The request reaches its route: the query parameters are validated (422),
\* then the limiter of lines 52 and 113 lets the request through or answers 429
\* (line 33-38).
Dispatch(h) ==
    /\ handlers[h].pc = "arrived"
    /\ LET request == handlers[h].request IN
       IF Route(request) = "list_items" /\ ~ValidQuery(request.params)
       THEN handlers' = Answer(h, 422, "validation error")
       ELSE \/ handlers' = Answer(h, 429, "Rate limit exceeded. Try again later.")
            \/ handlers' = [handlers EXCEPT ![h].pc =
                              IF Route(request) = "create_item" THEN "exists" ELSE "list"]
    /\ UNCHANGED <<store, key_unique>>

DbExistsSkipped(h) ==
    /\ handlers[h].pc = "exists"
    /\ handlers' = [handlers EXCEPT ![h].pc = "create"]
    /\ UNCHANGED <<store, key_unique>>

\* lines 55-56 and 63-64
DbExists(h) ==
    /\ handlers[h].pc = "exists"
    /\ IF KeyExists(store, handlers[h].request.json.key)
       THEN handlers' = Answer(h, 400, "Key exists")
       ELSE handlers' = [handlers EXCEPT ![h].pc = "create"]
    /\ UNCHANGED <<store, key_unique>>

\* lines 57, 61 and 65-67
DbCreate(h) ==
    /\ handlers[h].pc = "create"
    /\ LET item == handlers[h].request.json IN
       IF key_unique /\ KeyExists(store, item.key)
       THEN /\ handlers' = Answer(h, 500, "Internal server error")
            /\ UNCHANGED store
       ELSE /\ handlers' = Answer(h, 200, ItemDocument)
            /\ store' = Append(store, item)
    /\ UNCHANGED key_unique

\* lines 119-135
DbList(h) ==
    /\ handlers[h].pc = "list"
    /\ handlers' = Answer(h, 200, PageDocument)
    /\ UNCHANGED <<store, key_unique>>

client == <<config, pc, req, attempt, sent, hist, sleeps, delay, result, op>>

\* Two POST /items/ requests in the service at once, each run by
\* run_in_threadpool (line 60)
RawPost(key, value) ==
    [method |-> "POST", url |-> <<"http://host", "/items/">>, params |-> None,
     json |-> [key |-> key, value |-> value], timeout |-> 5]

ServerInit ==
    /\ base_url \in { rstrip(u) : u \in BaseUrls }
    /\ timeout \in Timeouts
    /\ max_retries = 1
    /\ backoff_base = 1
    /\ jitter = 1
    /\ pc = [c \in Callers |-> "idle"]
    /\ req = [c \in Callers |-> None]
    /\ attempt = [c \in Callers |-> 0]
    /\ sent = [c \in Callers |-> << >>]
    /\ hist = [c \in Callers |-> << >>]
    /\ sleeps = [c \in Callers |-> << >>]
    /\ delay = [c \in Callers |-> 0]
    /\ result = [c \in Callers |-> NoResult]
    /\ op = [c \in Callers |-> None]
    /\ store \in { << >>, << [key |-> "j", value |-> "v"] >> }
    /\ \E k1 \in ServiceKeys, k2 \in ServiceKeys :
         handlers = << NewHandler(RawPost(k1, "v"), "arrived"),
                       NewHandler(RawPost(k2, "v"), "arrived") >>
    /\ key_unique \in BOOLEAN
    /\ probe = None

ServerNext ==
    \/ \E h \in DOMAIN handlers : Dispatch(h) /\ UNCHANGED <<client, probe>>
    \/ \E h \in DOMAIN handlers : DbExists(h) /\ UNCHANGED <<client, probe>>
    \/ \E h \in DOMAIN handlers : DbCreate(h) /\ UNCHANGED <<client, probe>>

ServerSpec == ServerInit /\ [][ServerNext]_vars

----------------------------------------------------------------------------
(* Client and service together: one call of create or list, each network   *)
(* attempt of which is a request handled by the service.                   *)

SysInit ==
    /\ base_url \in { rstrip(u) : u \in BaseUrls }
    /\ timeout \in Timeouts
    /\ max_retries \in 1 .. MaxRetries
    /\ backoff_base = 1
    /\ jitter = 1
    /\ pc = [c \in Callers |-> "idle"]
    /\ req = [c \in Callers |-> None]
    /\ attempt = [c \in Callers |-> 0]
    /\ sent = [c \in Callers |-> << >>]
    /\ hist = [c \in Callers |-> << >>]
    /\ sleeps = [c \in Callers |-> << >>]
    /\ delay = [c \in Callers |-> 0]
    /\ result = [c \in Callers |-> NoResult]
    /\ op = [c \in Callers |-> None]
    /\ store \in { << >>, << [key |-> "k", value |-> "v"] >> }
    /\ handlers = << >>
    /\ key_unique \in BOOLEAN
    /\ probe = None

\* lines 45-51: requests.request puts the request on the wire
Send(c) ==
    /\ pc[c] = "request"
    /\ sent' = [sent EXCEPT ![c] = Append(@, req[c])]
    /\ handlers' = Append(handlers, NewHandler(req[c], "arrived"))
    /\ pc' = [pc EXCEPT ![c] = "waiting"]
    /\ UNCHANGED <<config, req, attempt, hist, sleeps, delay, result, op,
                   store, key_unique, probe>>

\* lines 45-51 and 78: the connection cannot be made, the service never sees
\* the request
ConnectFails(c) ==
    /\ pc[c] = "request"
    /\ sent' = [sent EXCEPT ![c] = Append(@, req[c])]
    /\ handlers' = Append(handlers, NewHandler(req[c], "refused"))
    /\ Handle(c, [kind |-> "ConnectionError", status_code |-> 0, body |-> NoDoc])
    /\ UNCHANGED <<store, key_unique, probe>>

\* lines 45-51: the response of the service arrives
Deliver(c) ==
    /\ pc[c] = "waiting"
    /\ LET h == handlers[Len(sent[c])] IN
       /\ h.pc = "done"
       /\ Handle(c, [kind |-> "response", status_code |-> h.status, body |-> h.body])
    /\ UNCHANGED <<sent, service, probe>>

\* lines 50 and 77: no response within the timeout, whatever the service has
\* done with the request by then; the handler goes on
TimeoutFires(c) ==
    /\ pc[c] = "waiting"
    /\ handlers' = [handlers EXCEPT ![Len(sent[c])].lost_at = handlers[Len(sent[c])].pc]
    /\ Handle(c, [kind |-> "Timeout", status_code |-> 0, body |-> NoDoc])
    /\ UNCHANGED <<sent, store, key_unique, probe>>

SysNext ==
    \/ \E c \in DOMAIN pc : pc[c] = "idle" /\ create(c)
    \/ \E c \in DOMAIN pc : pc[c] = "idle" /\ list(c)
    \/ \E c \in DOMAIN pc : Send(c)
    \/ \E c \in DOMAIN pc : ConnectFails(c)
    \/ \E c \in DOMAIN pc : Deliver(c)
    \/ \E c \in DOMAIN pc : TimeoutFires(c)
    \/ \E c \in DOMAIN pc : Wake(c)
    \/ \E h \in DOMAIN handlers : Dispatch(h) /\ UNCHANGED <<client, probe>>
    \/ \E h \in DOMAIN handlers : DbExists(h) /\ UNCHANGED <<client, probe>>
    \/ \E h \in DOMAIN handlers : DbCreate(h) /\ UNCHANGED <<client, probe>>
    \/ \E h \in DOMAIN handlers : DbList(h) /\ UNCHANGED <<client, probe>>

SysSpec == SysInit /\ [][SysNext]_vars

\* Every network attempt and every time.sleep of a call in progress completes.
FairSpec ==
    /\ Spec
    /\ \A c \in Callers : WF_vars(Attempt(c)) /\ WF_vars(Wake(c))

----------------------------------------------------------------------------
(* The outcome classes the properties speak of *)

IsClientError(r) ==
    r.kind = "response" /\ 400 <= r.status_code /\ r.status_code < 500
                        /\ r.status_code # 429
IsRateLimited(r) == r.kind = "response" /\ r.status_code = 429
IsRetryableFailure(r) == r.kind # "response" \/ r.status_code >= 500
IsSuccess(r) == r.kind = "response" /\ r.status_code < 400

Attempts(c) == Len(hist[c])
Sleeps(c) == Len(sleeps[c])
Last(s) == s[Len(s)]
AllOf(s, P(_)) == \A i \in 1 .. Len(s) : P(s[i])
IsRetryable(r) == IsRetryableFailure(r) \/ IsRateLimited(r)

----------------------------------------------------------------------------
(* C1: when attempt n of a call receives a status in [400,500) other than  *)
(* 429, the call raises that client error at attempt n: it is over, no     *)
(* sleep follows the attempt and no further attempt is made.               *)
C1_ClientErrorSurfacedAtOnce ==
    \A c \in DOMAIN pc :
        max_retries >= 1 =>
            \A n \in 1 .. Attempts(c) :
                IsClientError(hist[c][n]) =>
                    /\ pc[c] = "done"
                    /\ result[c] = Raised(ClientExc(hist[c][n]))
                    /\ Attempts(c) = n
                    /\ Sleeps(c) <= n - 1

(* C2 as stated: when all max_retries attempts end in a retryable failure  *)
(* the call raises the generic retries-exhausted error, never the last     *)
(* attempt's own error.                                                    *)
C2_ExhaustedRaisesGeneric ==
    \A c \in DOMAIN pc :
        ( /\ pc[c] = "done"
          /\ max_retries >= 1
          /\ Attempts(c) = max_retries
          /\ AllOf(hist[c], IsRetryableFailure) )
        => /\ result[c] = Raised(MaxRetriesExc)
           /\ result[c] # TryBody(Last(hist[c]))

(* C2 as amended: when all max_retries attempts end in a retryable failure *)
(* the call re-raises the exception of its last attempt (the "Server error *)
(* <status>" error or the transport exception), after max_retries attempts *)
(* and max_retries - 1 sleeps; it does not raise "Max retries exceeded".   *)
C2_ExhaustedRaisesLastCause ==
    \A c \in DOMAIN pc :
        ( /\ pc[c] = "done"
          /\ max_retries >= 1
          /\ Attempts(c) = max_retries
          /\ AllOf(hist[c], IsRetryableFailure) )
        => /\ result[c].kind = "raise"
           /\ result[c].exc = IF Last(hist[c]).kind = "response"
                              THEN ServerExc(Last(hist[c]))
                              ELSE TransportExc(Last(hist[c]))
           /\ result[c].exc # MaxRetriesExc
           /\ Sleeps(c) = max_retries - 1

C2_Witness ==
    \E c \in DOMAIN pc :
        /\ pc[c] = "done"
        /\ max_retries = 3
        /\ Attempts(c) = 3
        /\ AllOf(hist[c], IsRetryableFailure)
        /\ Last(hist[c]).kind = "response"
        /\ result[c].kind = "raise"

C4_SuccessAfterRetries ==
    \A c \in DOMAIN pc :
        max_retries >= 1 =>
            /\ ( /\ pc[c] # "idle"
                 /\ Attempts(c) < max_retries
                 /\ AllOf(hist[c], IsRetryable) )
               => pc[c] \in {"request", "sleep"}
            /\ \A n \in 1 .. Attempts(c) :
                 ( /\ AllOf(SubSeq(hist[c], 1, n - 1), IsRetryable)
                   /\ IsSuccess(hist[c][n]) )
                 => /\ pc[c] = "done"
                    /\ result[c] = Returned(hist[c][n].body)
                    /\ Attempts(c) = n
                    /\ Sleeps(c) = n - 1

C4_Witness ==
    \E c \in DOMAIN pc :
        /\ max_retries = 3
        /\ pc[c] = "done"
        /\ Attempts(c) = 3
        /\ hist[c][1].status_code = 500
        /\ hist[c][2].status_code = 500
        /\ hist[c][3].status_code = 200
        /\ result[c] = Returned(hist[c][3].body)
        /\ Sleeps(c) = 2

(* C5: with max_retries = 1, a call whose single attempt ends in a         *)
(* retryable failure raises after exactly one attempt and zero sleeps.     *)
C5_SingleAttemptNoSleep ==
    \A c \in DOMAIN pc :
        ( /\ max_retries = 1
          /\ Attempts(c) >= 1
          /\ IsRetryableFailure(hist[c][1]) )
        => /\ pc[c] = "done"
           /\ result[c].kind = "raise"
           /\ Attempts(c) = 1
           /\ Sleeps(c) = 0

C5_Witness ==
    \E c \in DOMAIN pc :
        /\ max_retries = 1
        /\ pc[c] = "done"
        /\ Attempts(c) = 1
        /\ IsRetryableFailure(hist[c][1])
        /\ result[c].kind = "raise"

(* C6: every call of _request terminates: a call in progress eventually    *)
(* returns or raises, whatever the responses (429 on every attempt         *)
(* included), provided each attempt and each sleep completes.              *)
C6_Terminates ==
    \A c \in Callers : (pc[c] \in {"request", "sleep"}) ~> (pc[c] = "done")

C6_Witness ==
    \E c \in DOMAIN pc :
        /\ pc[c] = "done"
        /\ max_retries = MaxRetries
        /\ Attempts(c) = max_retries
        /\ AllOf(hist[c], IsRateLimited)
        /\ Sleeps(c) = max_retries

(* C7: no call terminates by raising RateLimitError, also not when the 429 *)
(* arrives on the last allowed attempt.                                    *)
C7_RateLimitNeverSurfaced ==
    \A c \in DOMAIN pc :
        /\ result[c].exc.type # "RateLimitError"
        /\ ( /\ pc[c] = "done"
             /\ Attempts(c) >= 1
             /\ IsRateLimited(Last(hist[c])) )
           => result[c] = Raised(MaxRetriesExc)

C7_Witness ==
    \E c \in DOMAIN pc :
        /\ pc[c] = "done"
        /\ max_retries >= 2
        /\ Attempts(c) = max_retries
        /\ IsRateLimited(Last(hist[c]))
        /\ result[c].kind = "raise"

(* C8: a terminated call has slept exactly (number of attempts - 1) times: *)
(* every sleep lies between two attempts, none follows the last attempt.   *)
C8_SleepsBetweenAttempts ==
    \A c \in DOMAIN pc :
        (pc[c] = "done" /\ Attempts(c) >= 1) => Sleeps(c) = Attempts(c) - 1

(* C9 as stated: the delay of a sleep computed for attempt index n lies in *)
(* [backoff_base * 2^n, backoff_base * 2^n + jitter).                      *)
C9_DelayBelowCeiling ==
    \A c \in DOMAIN pc :
        Sleeps(c) >= 1 =>
            LET n == Last(sleeps[c]).attempt IN
            /\ backoff_base * Pow2(n) <= delay[c]
            /\ delay[c] < backoff_base * Pow2(n) + jitter

(* C9 as amended: the delay computed for attempt index n satisfies         *)
(* backoff_base * 2^n <= delay <= backoff_base * 2^n + jitter, the upper   *)
(* bound being strict whenever jitter > 0; with jitter = 0 the delay is    *)
(* exactly backoff_base * 2^n.                                             *)
C9_DelayWithinCeiling ==
    \A c \in DOMAIN pc :
        Sleeps(c) >= 1 =>
            LET n == Last(sleeps[c]).attempt IN
            /\ backoff_base * Pow2(n) <= delay[c]
            /\ delay[c] <= backoff_base * Pow2(n) + jitter
            /\ jitter > 0 => delay[c] < backoff_base * Pow2(n) + jitter

C9_Witness ==
    \E c \in DOMAIN pc :
        /\ pc[c] = "sleep"
        /\ jitter = 0
        /\ backoff_base = 1
        /\ Last(sleeps[c]).attempt = 2
        /\ delay[c] = 4

(* C10: within a call the attempt index starts at 0 and grows by one per   *)
(* network attempt; the sleep after the attempt with index n is computed   *)
(* from n, so the k-th sleep has exponential part backoff_base * 2^(k-1);  *)
(* and a new call starts at index 0 whatever the call before it reached.   *)
C10_IndexInv ==
    \A c \in DOMAIN pc :
        /\ pc[c] = "request" => attempt[c] = Attempts(c)
        /\ pc[c] = "sleep" => attempt[c] = Attempts(c) - 1
        /\ \A k \in 1 .. Sleeps(c) :
             /\ sleeps[c][k].attempt = k - 1
             /\ sleeps[c][k].exponential = backoff_base * Pow2(k - 1)

C10_IndexStep ==
    \A c \in DOMAIN pc :
        /\ (pc[c] \in {"idle", "done"} /\ pc'[c] = "request")
              => attempt'[c] = 0 /\ hist'[c] = << >> /\ sleeps'[c] = << >>
        /\ (pc[c] = "sleep" /\ pc'[c] = "request") => attempt'[c] = attempt[c] + 1
        /\ Len(sleeps'[c]) = Sleeps(c) + 1
              => Last(sleeps'[c]).attempt = attempt[c] /\ attempt'[c] = attempt[c]

C10_AttemptIndex == [](C10_IndexInv) /\ [][C10_IndexStep]_vars

C10_Witness ==
    \E c \in DOMAIN pc :
        /\ backoff_base = 2
        /\ Sleeps(c) = 3
        /\ sleeps[c][3].exponential = 8
        /\ pc[c] = "done"

(* C11: with two calls running concurrently through one client, a step of  *)
(* one call changes no retry state of the other, and each call's attempt   *)
(* index, numbers of attempts and sleeps, backoff exponents and terminal   *)
(* outcome are determined by the responses to its own attempts.            *)
OwnSleeps(h) ==
    Cardinality({ i \in 1 .. Len(h) :
                    /\ TryBody(h[i]).kind = "raise"
                    /\ IsRateLimited(h[i]) \/ i < max_retries })

OwnOutcome(h) ==
    IF IsRateLimited(Last(h)) THEN Raised(MaxRetriesExc) ELSE TryBody(Last(h))

C11_OwnInv ==
    \A c \in DOMAIN pc :
        /\ pc[c] = "request" => attempt[c] = Attempts(c)
        /\ pc[c] = "sleep" => attempt[c] = Attempts(c) - 1
        /\ Len(sent[c]) = Attempts(c)
        /\ Attempts(c) <= max_retries
        /\ Sleeps(c) = OwnSleeps(hist[c])
        /\ \A k \in 1 .. Sleeps(c) :
             sleeps[c][k] = [attempt |-> k - 1, exponential |-> backoff_base * Pow2(k - 1)]
        /\ (pc[c] = "done" /\ Attempts(c) >= 1) => result[c] = OwnOutcome(hist[c])

C11_OwnStep ==
    \A c \in DOMAIN pc :
        pc'[c] = pc[c] =>
            /\ attempt'[c] = attempt[c]
            /\ hist'[c] = hist[c]
            /\ sent'[c] = sent[c]
            /\ sleeps'[c] = sleeps[c]
            /\ delay'[c] = delay[c]
            /\ result'[c] = result[c]
            /\ req'[c] = req[c]

C11_CallsIndependent == [](C11_OwnInv) /\ [][C11_OwnStep]_vars

C11_Witness ==
    /\ max_retries = 2
    /\ pc["t1"] = "sleep" /\ attempt["t1"] = 1 /\ Attempts("t1") = 2
    /\ pc["t2"] = "request" /\ attempt["t2"] = 0 /\ Attempts("t2") = 0
    /\ op["t1"].name = "create" /\ op["t2"].name = "get"

(* C12: no operation changes base_url, timeout, max_retries, backoff_base  *)
(* or jitter: after any sequence of calls, whatever their outcomes, each   *)
(* field has the value the constructor gave it.                            *)
C12_ConfigUnchanged ==
    [][ /\ base_url' = base_url
        /\ timeout' = timeout
        /\ max_retries' = max_retries
        /\ backoff_base' = backoff_base
        /\ jitter' = jitter ]_vars

C12_Witness ==
    \E c \in DOMAIN pc :
        /\ pc[c] = "done"
        /\ op[c].name = "list"
        /\ Attempts(c) = 3
        /\ Sleeps(c) = 2
        /\ result[c].kind = "raise"
        /\ max_retries = 3 /\ backoff_base = 2 /\ jitter = 2
        /\ base_url = <<"http://host">>

(* C13: for every status code, the attempt is classified by the ordered    *)
(* rules: 429 is rate-limited; the body is returned as success if and only *)
(* if the status lies in [200,400); a status in [400,500) other than 429   *)
(* is a client error; a status >= 500 is a server error.                   *)
C13_ClassificationRules ==
    (probe # None /\ probe.outcome # NoResult /\ probe.response.kind = "response") =>
        LET r == probe.response
            s == r.status_code
            out == probe.outcome
        IN  /\ s = 429 => out = Raised(RateLimitExc)
            /\ out.kind = "return" <=> (200 <= s /\ s < 400)
            /\ out.kind = "return" => out.value = r.body
            /\ (400 <= s /\ s < 500 /\ s # 429) => out = Raised(ClientExc(r))
            /\ s >= 500 => out = Raised(ServerExc(r))

(* C16: of two concurrent POST /items/ requests with the same key, not yet *)
(* stored, at most one answers 200 and stores the item and the other       *)
(* answers 400 "Key exists"; the store never holds two items with a key.   *)
C16_OneCreateWins ==
    /\ \A key \in ServiceKeys : CountKey(store, key) <= 1
    /\ \A h1 \in DOMAIN handlers, h2 \in DOMAIN handlers :
         ( /\ h1 # h2
           /\ handlers[h1].request.json.key = handlers[h2].request.json.key
           /\ handlers[h1].pc = "done" /\ handlers[h2].pc = "done"
           /\ handlers[h1].status # 429 /\ handlers[h2].status # 429
           /\ handlers[h1].status = 200 )
         => /\ handlers[h2].status = 400
            /\ handlers[h2].body = "Key exists"

(* C14: list(page, page_size) puts the caller's page and page_size, as     *)
(* given and also when out of range, in the query of GET /items/ on every  *)
(* attempt; the call is not refused locally, and its outcome comes from    *)
(* the service's answer (422 from the validation of an out-of-range        *)
(* value).                                                                 *)
C14_ListForwardsParams ==
    \A c \in DOMAIN pc :
        (op[c] # None /\ op[c].name = "list") =>
            LET page == op[c].args[1]
                page_size == op[c].args[2]
                inside == page >= 1 /\ page_size >= 1 /\ page_size <= 100
            IN  /\ \A i \in 1 .. Len(sent[c]) :
                     /\ sent[c][i].method = "GET"
                     /\ sent[c][i].url = base_url \o <<"/items/">>
                     /\ sent[c][i].params.page = page
                     /\ sent[c][i].params.page_size = page_size
                     /\ handlers[i].request = sent[c][i]
                /\ pc[c] = "done" => Attempts(c) >= 1
                /\ \A i \in 1 .. Attempts(c) :
                     hist[c][i].kind = "response" =>
                         /\ hist[c][i].status_code = handlers[i].status
                         /\ ~inside => hist[c][i].status_code = 422
                         /\ inside => hist[c][i].status_code \in {200, 429}
                /\ pc[c] = "done" => result[c] = OwnOutcome(hist[c])

C14_Witness ==
    \E c \in DOMAIN pc :
        /\ op[c] # None /\ op[c].name = "list"
        /\ op[c].args = <<0, 101>>
        /\ pc[c] = "done"
        /\ Len(sent[c]) = 2
        /\ sent[c][2].params = [page |-> 0, page_size |-> 101]
        /\ hist[c][2].kind = "response" /\ hist[c][2].status_code = 422
        /\ result[c].kind = "raise" /\ result[c].exc.status = 422

C15_GenericIffLastRateLimited ==
    \A c \in DOMAIN pc :
        (pc[c] = "done" /\ max_retries >= 1) =>
            /\ result[c] = Raised(MaxRetriesExc)
                 <=> ( /\ Attempts(c) = max_retries
                       /\ IsRateLimited(hist[c][max_retries]) )
            /\ (result[c].kind = "raise" /\ result[c] # Raised(MaxRetriesExc))
                 => /\ result[c] = TryBody(Last(hist[c]))
                    /\ result[c].exc.type \in {"KVClientError", "Timeout", "ConnectionError"}
                    /\ result[c].exc.msg # "Max retries exceeded"

C15_Witness ==
    \E c \in DOMAIN pc :
        /\ pc[c] = "done"
        /\ max_retries = 3
        /\ Attempts(c) = 3
        /\ IsRateLimited(hist[c][1])
        /\ hist[c][2].kind = "Timeout"
        /\ IsClientError(hist[c][3])
        /\ result[c] = Raised(ClientExc(hist[c][3]))

(* C18: every finished call has issued at least one request, for every     *)
(* max_retries the constructor accepts, values <= 0 included.              *)
C18_AtLeastOneAttempt ==
    \A c \in DOMAIN pc :
        pc[c] = "done" => (Len(sent[c]) >= 1 /\ Attempts(c) >= 1)

====
